---- MODULE Spec2Model ----
(***************************************************************************)
(* One run of whisper_service.py: main() parses its arguments, selects a   *)
(* device (detect_device), loads the model (load_model), transcribes the   *)
(* audio file (transcribe_audio) and prints the transcript.                *)
(*                                                                         *)
(* The environment of a run (which modules import, what the probes         *)
(* answer, whether the audio file exists) is fixed in Init; the outcome of *)
(* each library call (load, move, transcribe) is chosen when it is made.   *)
(***************************************************************************)
EXTENDS Integers, Sequences, FiniteSets

VARIABLES
    requested,      \* args.device
    model_name,     \* args.model
    language,       \* args.language
    audioExists,    \* Path(args.audio_file).exists()
    env,            \* outcomes of the imports and of the hardware probes
    pc,             \* position in main()
    detected,       \* what detect_device did: returned pair or raised exception
    model,          \* the model handle held by main(), or NoModel
    result,         \* the result the library's transcribe returned, or NoResult
    transcription,  \* the value returned by transcribe_audio
    calls,          \* library entry points invoked so far, in order, with outcome
    stdout,         \* characters written to sys.stdout
    stderr,         \* messages written to sys.stderr, in order
    exitCode        \* process exit status, -1 while the process runs

vars == <<requested, model_name, language, audioExists, env, pc, detected,
          model, result, transcription, calls, stdout, stderr, exitCode>>

----------------------------------------------------------------------------
(* Bounds *)

\* Longest text the library returns in result["text"].
MaxTextLen == 3

----------------------------------------------------------------------------
(* Argument domains (argparse) *)

DeviceChoices == {"auto", "cpu", "cuda", "directml"}

ModelChoices == {"tiny", "base", "small", "medium", "large"}

\* None (the default), the empty string, or a language code.
Languages == {"None", "", "en"}

----------------------------------------------------------------------------
(* Python exceptions *)

\* The direct base class of each exception class used here.
ExcParent(c) ==
    CASE c = "ImportError"  -> "Exception"
      [] c = "RuntimeError" -> "Exception"
      [] c = "Exception"    -> "BaseException"
      [] c = "SystemExit"   -> "BaseException"
      [] OTHER              -> "object"

RECURSIVE IsInstance(_, _)
\* isinstance(exc, cls): what an `except cls` clause matches.
IsInstance(exc, cls) ==
    IF exc = cls THEN TRUE
    ELSE IF exc \in {"BaseException", "object"} THEN FALSE
    ELSE IsInstance(ExcParent(exc), cls)

\* `except ImportError` of detect_device's directml branch.
DirectMLHandler(exc) == IsInstance(exc, "ImportError")

\* `except (ImportError, Exception)` and `except Exception` of the auto branch.
AutoHandler(exc) == IsInstance(exc, "ImportError") \/ IsInstance(exc, "Exception")

\* `except Exception as e` of load_model and of transcribe_audio.
ExceptException_Base(exc) == IsInstance(exc, "BaseException")

ExceptException(exc) == IsInstance(exc, "Exception")

----------------------------------------------------------------------------
(* Devices *)

\* The str "cpu" / "cuda", or the object torch_directml.device() returns.
CPU  == [type |-> "str", value |-> "cpu"]
CUDA == [type |-> "str", value |-> "cuda"]
DML  == [type |-> "torch.device", value |-> "privateuseone"]
NoDevice == [type |-> "NoneType", value |-> "None"]

----------------------------------------------------------------------------
(* detect_device *)

Returned(dev, fp16, msgs, probes) ==
    [raised |-> "none", device |-> dev, use_fp16 |-> fp16,
     msgs |-> msgs, probes |-> probes]

Raised(exc, msgs, probes) ==
    [raised |-> exc, device |-> NoDevice, use_fp16 |-> FALSE,
     msgs |-> msgs, probes |-> probes]

\* `import torch_directml; device = torch_directml.device()`: the device, or
\* the exception the two statements raise.
ProbeDirectML(e, okMsg) ==
    IF ~e.dmlImport
    THEN Raised("ImportError", <<>>, <<"import torch_directml">>)
    ELSE IF e.dmlDevice # "ok"
    THEN Raised(e.dmlDevice, <<>>,
                <<"import torch_directml", "torch_directml.device">>)
    ELSE Returned(DML, FALSE, <<okMsg>>,
                  <<"import torch_directml", "torch_directml.device">>)

\* requested == "cuda"
DetectCuda(e) ==
    IF ~e.torchImport
    THEN Raised("ImportError", <<>>, <<"import torch">>)
    ELSE IF e.cudaAvail
    THEN Returned(CUDA, TRUE, <<"Using CUDA">>,
                  <<"import torch", "torch.cuda.is_available">>)
    ELSE Returned(CPU, FALSE, <<"CUDA requested but not available">>,
                  <<"import torch", "torch.cuda.is_available">>)

\* requested == "directml"
DetectDirectML(e) ==
    LET try == ProbeDirectML(e, "Using DirectML device")
    IN  IF try.raised = "none" THEN try
        ELSE IF DirectMLHandler(try.raised)
        THEN Returned(CPU, FALSE, <<"DirectML requested but not installed">>,
                      try.probes)
        ELSE try

\* A try block that ended without a return statement.
FellThrough(probes) ==
    [raised |-> "none", device |-> NoDevice, use_fp16 |-> FALSE,
     msgs |-> <<>>, probes |-> probes]

\* Second try block of the auto branch: `import torch`, then the CUDA probe.
AutoCuda(e) ==
    IF ~e.torchImport
    THEN Raised("ImportError", <<>>, <<"import torch">>)
    ELSE IF e.cudaAvail
    THEN Returned(CUDA, TRUE, <<"Auto-detected CUDA">>,
                  <<"import torch", "torch.cuda.is_available">>)
    ELSE FellThrough(<<"import torch", "torch.cuda.is_available">>)

\* One try block of the auto branch followed by the rest of the function:
\* a return ends the function, a handled exception or no return goes on.
AutoThen(try, rest) ==
    IF try.raised = "none" /\ try.device # NoDevice THEN try
    ELSE IF try.raised # "none" /\ ~AutoHandler(try.raised) THEN try
    ELSE [rest EXCEPT !.probes = try.probes \o rest.probes]

AutoCpu == Returned(CPU, FALSE, <<"No GPU/NPU detected, using CPU">>, <<>>)

\* The auto branch with the two accelerators probed in the other order.
DetectAuto_CudaFirst(e) ==
    AutoThen(AutoCuda(e),
             AutoThen(ProbeDirectML(e, "Auto-detected DirectML device"), AutoCpu))

\* requested == "auto": DirectML, then CUDA, then CPU.
DetectAuto(e) ==
    AutoThen(ProbeDirectML(e, "Auto-detected DirectML device"),
             AutoThen(AutoCuda(e), AutoCpu))

detect_device(req, e) ==
    IF req = "cpu" THEN Returned(CPU, FALSE, <<>>, <<>>)
    ELSE IF req = "cuda" THEN DetectCuda(e)
    ELSE IF req = "directml" THEN DetectDirectML(e)
    ELSE DetectAuto(e)

----------------------------------------------------------------------------
(* str.strip() *)

Chars == {" ", "\n", "a"}

IsSpace(c) == c \in {" ", "\n"}

\* Every text of at most MaxTextLen characters.
Texts == UNION {[1..n -> Chars] : n \in 0..MaxTextLen}

RECURSIVE LStrip(_)
LStrip(s) == IF s # <<>> /\ IsSpace(Head(s)) THEN LStrip(Tail(s)) ELSE s

RECURSIVE RStrip(_)
RStrip(s) ==
    IF s # <<>> /\ IsSpace(s[Len(s)]) THEN RStrip(SubSeq(s, 1, Len(s) - 1)) ELSE s

\* Only the leading whitespace removed.
Strip_LeftOnly(s) == LStrip(s)

Strip(s) == RStrip(LStrip(s))

----------------------------------------------------------------------------
(* load_model *)

NoModel == [name |-> "None", placement |-> "None"]

Call(fn, arg, out) == [fn |-> fn, arg |-> arg, out |-> out]

\* Outcomes of a library call: it returns, or raises some Exception.
LibOutcomes == {"ok", "RuntimeError"}

\* Where whisper.load_model(name) puts a model when no device is given:
\* on CUDA when the library finds it available, else on the CPU.
DefaultPlacement(e) == IF e.torchImport /\ e.cudaAvail THEN "cuda" ELSE "cpu"

\* The try block of load_model for a device that is not the str cpu / cuda,
\* without the move to the device.
LoadElsewhere_NoMove(name, device, e, loadOut, moveOut) ==
    LET load == Call("whisper.load_model", [device |-> "default"], loadOut)
    IN  IF loadOut # "ok"
        THEN [raised |-> loadOut, model |-> NoModel, calls |-> <<load>>]
        ELSE [raised |-> "none",
              model |-> [name |-> name, placement |-> DefaultPlacement(e)],
              calls |-> <<load>>]

\* The try block of load_model for a device that is not the str cpu / cuda:
\* load on the default placement, then model.to(device).
LoadElsewhere(name, device, e, loadOut, moveOut) ==
    LET load == Call("whisper.load_model", [device |-> "default"], loadOut)
        move == Call("model.to", [device |-> device.value], moveOut)
    IN  IF loadOut # "ok"
        THEN [raised |-> loadOut, model |-> NoModel, calls |-> <<load>>]
        ELSE IF moveOut # "ok"
        THEN [raised |-> moveOut, model |-> NoModel, calls |-> <<load, move>>]
        ELSE [raised |-> "none",
              model |-> [name |-> name, placement |-> device.value],
              calls |-> <<load, move>>]

\* The native route with a second attempt after a failed load.
LoadNative_Retry(name, device, loadOut) ==
    LET load == Call("whisper.load_model", [device |-> device.value], loadOut)
        again == Call("whisper.load_model", [device |-> device.value], "ok")
    IN  IF loadOut # "ok"
        THEN [raised |-> "none",
              model |-> [name |-> name, placement |-> device.value],
              calls |-> <<load, again>>]
        ELSE [raised |-> "none",
              model |-> [name |-> name, placement |-> device.value],
              calls |-> <<load>>]

\* The try block of load_model for the str cpu / cuda: the device is the
\* loader's own device argument.
LoadNative(name, device, loadOut) ==
    LET load == Call("whisper.load_model", [device |-> device.value], loadOut)
    IN  IF loadOut # "ok"
        THEN [raised |-> loadOut, model |-> NoModel, calls |-> <<load>>]
        ELSE [raised |-> "none",
              model |-> [name |-> name, placement |-> device.value],
              calls |-> <<load>>]

\* load_model(model_name, device, use_fp16), given the outcomes of the
\* library calls it makes: the exception that leaves it (or none), the
\* model it returns, what it prints to stderr and the calls it made.
load_model(name, device, e, loadOut, moveOut) ==
    IF ~e.whisperImport
    THEN [raised |-> "ImportError", model |-> NoModel, msgs |-> <<>>,
          calls |-> <<>>]
    ELSE
    LET try == IF device.type = "str" /\ device.value \in {"cpu", "cuda"}
               THEN LoadNative(name, device, loadOut)
               ELSE LoadElsewhere(name, device, e, loadOut, moveOut)
    IN  IF try.raised = "none"
        THEN [raised |-> "none", model |-> try.model,
              msgs |-> <<"Loading Whisper model", "Model loaded successfully">>,
              calls |-> try.calls]
        ELSE IF ExceptException(try.raised)
        THEN [raised |-> "SystemExit", model |-> NoModel,
              msgs |-> <<"Loading Whisper model", "Error loading model">>,
              calls |-> try.calls]
        ELSE [raised |-> try.raised, model |-> NoModel,
              msgs |-> <<"Loading Whisper model">>, calls |-> try.calls]

----------------------------------------------------------------------------
(* transcribe_audio *)

NoResult == [text |-> <<>>, present |-> FALSE]

\* What model.transcribe does: raises, or returns a result with a text.
TranscribeOutcomes ==
    {[raised |-> "RuntimeError", text |-> <<>>]}
        \cup {[raised |-> "none", text |-> t] : t \in Texts}

\* `language if language else None`
LanguageOption(lang) == IF lang = "" THEN "None" ELSE lang

\* The try block of transcribe_audio with no check of the path.
TranscribeTry_NoCheck(exists, lang, fp16, out) ==
    LET options == [fp16 |-> fp16, language |-> LanguageOption(lang)]
        run     == Call("model.transcribe", options,
                        IF out.raised = "none" THEN "ok" ELSE out.raised)
    IN  [raised |-> out.raised,
         value |-> IF out.raised = "none" THEN Strip(out.text) ELSE <<>>,
         result |-> IF out.raised = "none"
                    THEN [text |-> out.text, present |-> TRUE] ELSE NoResult,
         msgs |-> <<"Transcribing">>, calls |-> <<run>>]

\* The try block of transcribe_audio.
TranscribeTry(exists, lang, fp16, out) ==
    LET check   == Call("Path.exists", [path |-> "audio_path"],
                        IF exists THEN "True" ELSE "False")
        options == [fp16 |-> fp16, language |-> LanguageOption(lang)]
        run     == Call("model.transcribe", options,
                        IF out.raised = "none" THEN "ok" ELSE out.raised)
    IN  IF ~exists
        THEN [raised |-> "SystemExit", value |-> <<>>, result |-> NoResult,
              msgs |-> <<"Error: Audio file not found">>, calls |-> <<check>>]
        ELSE IF out.raised # "none"
        THEN [raised |-> out.raised, value |-> <<>>, result |-> NoResult,
              msgs |-> <<"Transcribing">>, calls |-> <<check, run>>]
        ELSE [raised |-> "none", value |-> Strip(out.text),
              result |-> [text |-> out.text, present |-> TRUE],
              msgs |-> <<"Transcribing">>, calls |-> <<check, run>>]

\* transcribe_audio whose handler returns an empty text instead of exiting.
transcribe_audio_Swallow(exists, lang, fp16, out) ==
    LET try == TranscribeTry(exists, lang, fp16, out)
    IN  IF try.raised # "none" /\ ExceptException(try.raised)
        THEN [try EXCEPT !.raised = "none",
                         !.msgs = try.msgs \o <<"Error during transcription">>]
        ELSE try

\* transcribe_audio(model, audio_path, language, use_fp16), given whether
\* the path exists and what model.transcribe does.
transcribe_audio(exists, lang, fp16, out) ==
    LET try == TranscribeTry(exists, lang, fp16, out)
    IN  IF try.raised # "none" /\ ExceptException(try.raised)
        THEN [try EXCEPT !.raised = "SystemExit",
                         !.msgs = try.msgs \o <<"Error during transcription">>]
        ELSE try

----------------------------------------------------------------------------
(* main *)

\* What the interpreter prints for an exception that leaves main(): nothing
\* for SystemExit, a traceback for any other. The exit status is 1 for both
\* (sys.exit(1) is the only exit the script calls).
Uncaught(exc) == IF exc = "SystemExit" THEN <<>> ELSE <<"Traceback">>

Environments ==
    [torchImport   : BOOLEAN,
     cudaAvail     : BOOLEAN,
     dmlImport     : BOOLEAN,
     dmlDevice     : {"ok", "ImportError", "RuntimeError"},
     whisperImport : BOOLEAN]

NotDetected ==
    [raised |-> "none", device |-> NoDevice, use_fp16 |-> FALSE, probes |-> <<>>]

\* main() with transcribe_audio called before load_model.
AfterReturn_TranscribeFirst(p) ==
    CASE p = "detect"     -> "transcribe"
      [] p = "transcribe" -> "load"
      [] p = "load"       -> "print"
      [] OTHER            -> "done"

\* The statement of main() that runs when the statement at p has returned.
AfterReturn(p) ==
    CASE p = "detect"     -> "load"
      [] p = "load"       -> "transcribe"
      [] p = "transcribe" -> "print"
      [] OTHER            -> "done"

Init ==
    /\ requested \in DeviceChoices
    /\ model_name \in ModelChoices
    /\ language \in Languages
    /\ audioExists \in BOOLEAN
    /\ env \in Environments
    /\ pc = "detect"
    /\ detected = NotDetected
    /\ model = NoModel
    /\ result = NoResult
    /\ transcription = <<>>
    /\ calls = <<>>
    /\ stdout = <<>>
    /\ stderr = <<>>
    /\ exitCode = -1

\* device, use_fp16 = detect_device(args.device)
Detect ==
    /\ pc = "detect"
    /\ LET r == detect_device(requested, env)
       IN  /\ detected' = [raised |-> r.raised, device |-> r.device,
                           use_fp16 |-> r.use_fp16, probes |-> r.probes]
           /\ IF r.raised = "none"
              THEN /\ stderr' = stderr \o r.msgs
                   /\ pc' = AfterReturn(pc)
                   /\ exitCode' = exitCode
              ELSE /\ stderr' = stderr \o r.msgs \o Uncaught(r.raised)
                   /\ pc' = "done"
                   /\ exitCode' = 1
    /\ UNCHANGED <<requested, model_name, language, audioExists, env, model,
                   result, transcription, calls, stdout>>

\* model = load_model(args.model, device, use_fp16)
Load ==
    /\ pc = "load"
    /\ \E loadOut \in LibOutcomes, moveOut \in LibOutcomes :
          LET r == load_model(model_name, detected.device, env, loadOut, moveOut)
          IN  /\ calls' = calls \o r.calls
              /\ IF r.raised = "none"
                 THEN /\ model' = r.model
                      /\ stderr' = stderr \o r.msgs
                      /\ pc' = AfterReturn(pc)
                      /\ exitCode' = exitCode
                 ELSE /\ model' = model
                      /\ stderr' = stderr \o r.msgs \o Uncaught(r.raised)
                      /\ pc' = "done"
                      /\ exitCode' = 1
    /\ UNCHANGED <<requested, model_name, language, audioExists, env, detected,
                   result, transcription, stdout>>

\* transcription = transcribe_audio(model, args.audio_file, args.language, use_fp16)
Transcribe ==
    /\ pc = "transcribe"
    /\ \E out \in TranscribeOutcomes :
          LET r == transcribe_audio(audioExists, language, detected.use_fp16, out)
          IN  /\ calls' = calls \o r.calls
              /\ result' = r.result
              /\ IF r.raised = "none"
                 THEN /\ transcription' = r.value
                      /\ stderr' = stderr \o r.msgs
                      /\ pc' = AfterReturn(pc)
                      /\ exitCode' = exitCode
                 ELSE /\ transcription' = transcription
                      /\ stderr' = stderr \o r.msgs \o Uncaught(r.raised)
                      /\ pc' = "done"
                      /\ exitCode' = 1
    /\ UNCHANGED <<requested, model_name, language, audioExists, env, detected,
                   model, stdout>>

\* print(transcription), then main() returns and the process exits with 0.
Output ==
    /\ pc = "print"
    /\ stdout' = stdout \o transcription \o <<"\n">>
    /\ pc' = AfterReturn(pc)
    /\ exitCode' = 0
    /\ UNCHANGED <<requested, model_name, language, audioExists, env, detected,
                   model, result, transcription, calls, stderr>>

Next == Detect \/ Load \/ Transcribe \/ Output

Spec == Init /\ [][Next]_vars

\* The interpreter runs main() to its end: each statement that can run does.
FairSpec == Spec /\ WF_vars(Next)

----------------------------------------------------------------------------
(* Vocabulary of the properties *)

Done == pc = "done"

\* Indices of the calls made to one library entry point.
CallsTo(fn) == {i \in DOMAIN calls : calls[i].fn = fn}

Printed(msg) == \E i \in DOMAIN stderr : stderr[i] = msg

ErrorDiagnostics ==
    {"Error loading model", "Error: Audio file not found",
     "Error during transcription", "Traceback"}

ErrorCount == Cardinality({i \in DOMAIN stderr : stderr[i] \in ErrorDiagnostics})

LoadRaised ==
    \E i \in CallsTo("whisper.load_model") \cup CallsTo("model.to") :
        calls[i].out # "ok"

InferenceRaised == \E i \in CallsTo("model.transcribe") : calls[i].out # "ok"

\* The accelerators as the environment has them.
DmlAvailable == env.dmlImport /\ env.dmlDevice = "ok"

CudaAvailable == env.torchImport /\ env.cudaAvail

\* body is raw without its leading and trailing whitespace.
IsTrimOf(body, raw) ==
    /\ \E i \in 1..(Len(raw) + 1), j \in 0..Len(raw) :
          /\ body = SubSeq(raw, i, j)
          /\ \A k \in 1..Len(raw) : (k < i \/ k > j) => IsSpace(raw[k])
    /\ body # <<>> => ~IsSpace(body[1]) /\ ~IsSpace(body[Len(body)])

----------------------------------------------------------------------------
(* Properties *)

\* C1: a run whose audio path does not exist ends with exit code 1 and with
\* nothing written to standard output, whatever the device, the model size
\* and the outcomes of probing and loading.
C1_MissingFileExitsOne ==
    (Done /\ ~audioExists) => (exitCode = 1 /\ stdout = <<>>)

C1_Witness ==
    /\ Done /\ ~audioExists /\ model # NoModel
    /\ \E i \in CallsTo("Path.exists") : calls[i].out = "False"
    /\ exitCode = 1

\* C2: standard output is empty, or holds exactly the trimmed transcript and
\* one newline; it is written only after inference succeeded, and no message
\* of detect_device, load_model or transcribe_audio is on it.
C2_StdoutIsTranscript ==
    \/ stdout = <<>>
    \/ /\ result.present
       /\ \E i \in CallsTo("model.transcribe") : calls[i].out = "ok"
       /\ Len(stdout) >= 1
       /\ stdout[Len(stdout)] = "\n"
       /\ IsTrimOf(SubSeq(stdout, 1, Len(stdout) - 1), result.text)

C2_Witness ==
    /\ Len(stdout) = 2
    /\ Len(result.text) = 3
    /\ IsSpace(result.text[3])
    /\ stderr # <<>>

\* C3: every run ends, in exactly one of two terminal states: success (exit
\* code 0, the transcript on stdout) or failure (exit code 1, a diagnostic on
\* stderr); a missing file, an exception from loading and an exception from
\* inference each lead to failure, and success has none of them.
C3_Success ==
    /\ exitCode = 0
    /\ result.present
    /\ stdout = transcription \o <<"\n">>

C3_Failure == exitCode = 1 /\ ErrorCount >= 1 /\ stdout = <<>>

C3_TwoTerminalStates ==
    /\ <>Done
    /\ [](~Done => exitCode = -1)
    /\ [](Done => (C3_Success /\ ~C3_Failure) \/ (C3_Failure /\ ~C3_Success))
    /\ [](Done /\ (~audioExists \/ LoadRaised \/ InferenceRaised) => C3_Failure)
    /\ [](C3_Success => audioExists /\ ~LoadRaised /\ ~InferenceRaised)

C3_Witness ==
    /\ Done /\ C3_Failure
    /\ InferenceRaised
    /\ Printed("Error during transcription")

\* C4: detect_device never fails: for every requested tag and every outcome
\* of the probes it returns a pair, and when the requested accelerator is
\* unavailable the pair is (CPU, full precision).
C4_DetectNeverFails ==
    pc # "detect" =>
        /\ detected.raised = "none"
        /\ (requested = "cuda" /\ ~CudaAvailable) =>
               (detected.device = CPU /\ ~detected.use_fp16)
        /\ (requested = "directml" /\ ~DmlAvailable) =>
               (detected.device = CPU /\ ~detected.use_fp16)

C6_CpuAndCudaFallback ==
    pc # "detect" =>
        /\ requested = "cpu" =>
               /\ detected.raised = "none"
               /\ detected.device = CPU /\ ~detected.use_fp16
               /\ detected.probes = <<>>
        /\ (requested = "cuda" /\ ~env.cudaAvail) =>
               /\ detected.raised = "none"
               /\ detected.device = CPU /\ ~detected.use_fp16

\* C7: load_model takes exactly one of two routes: for the str cpu / cuda the
\* loader gets the device as its argument and nothing is moved; for any other
\* device the loader gets no device and the model is then moved to the device
\* exactly once; the model returned is on the device detect_device chose.
C7_LoadRoutes ==
    LET d      == detected.device
        loads  == CallsTo("whisper.load_model")
        moves  == CallsTo("model.to")
        native == d \in {CPU, CUDA}
    IN  /\ \A i \in loads :
              calls[i].arg.device = IF native THEN d.value ELSE "default"
        /\ native => moves = {}
        /\ \A i \in moves :
              /\ calls[i].arg.device = d.value
              /\ \E j \in loads : j < i /\ calls[j].out = "ok"
        /\ model # NoModel =>
              /\ Cardinality(loads) = 1
              /\ Cardinality(moves) = IF native THEN 0 ELSE 1
              /\ model.placement = d.value

C7_Witness ==
    /\ model # NoModel
    /\ detected.device = DML
    /\ DefaultPlacement(env) = "cuda"
    /\ model.placement = DML.value

\* C8: the load and the transcribe entry points are each invoked at most
\* once, at most one model handle and one result exist, transcribe is invoked
\* only after the load succeeded and the file was found to exist, and a
\* failed run has written no transcript.
C8_AtMostOnce ==
    /\ Cardinality(CallsTo("whisper.load_model")) <= 1
    /\ Cardinality(CallsTo("model.to")) <= 1
    /\ Cardinality(CallsTo("model.transcribe")) <= 1
    /\ \A i \in CallsTo("model.transcribe") :
          /\ model # NoModel
          /\ \E j \in CallsTo("whisper.load_model") : j < i /\ calls[j].out = "ok"
          /\ \A j \in CallsTo("whisper.load_model") \cup CallsTo("model.to") :
                j < i /\ calls[j].out = "ok"
          /\ \E j \in CallsTo("Path.exists") : j < i /\ calls[j].out = "True"
    /\ result.present => \E i \in CallsTo("model.transcribe") : calls[i].out = "ok"
    /\ exitCode = 1 => stdout = <<>>

C8_Witness ==
    /\ Done /\ exitCode = 1
    /\ LoadRaised
    /\ Cardinality(CallsTo("whisper.load_model")) = 1
    /\ CallsTo("model.transcribe") = {}

\* C9: the existence of the input file is checked only after the model has
\* been loaded: a run that fails on the missing file has selected a device
\* and loaded the model first, and a run with a missing file and a failing
\* load reports the load error and never the missing file.
C9_FileCheckedAfterLoad ==
    /\ \A i \in CallsTo("Path.exists") :
          /\ detected.raised = "none" /\ detected.device # NoDevice
          /\ model # NoModel
          /\ \E j \in CallsTo("whisper.load_model") : j < i /\ calls[j].out = "ok"
    /\ \A i \in DOMAIN stderr :
          stderr[i] = "Error: Audio file not found" =>
              \E j \in 1..(i - 1) : stderr[j] = "Model loaded successfully"
    /\ (Done /\ ~audioExists /\ LoadRaised) =>
          /\ Printed("Error loading model")
          /\ ~Printed("Error: Audio file not found")
          /\ CallsTo("Path.exists") = {}

C9_Witness ==
    /\ Done /\ ~audioExists
    /\ LoadRaised
    /\ Printed("Error loading model")

\* C10: a failing run writes exactly one error diagnostic to stderr, the one
\* of the failure that occurred; the exit raised for a missing file is not
\* caught by the handler of transcribe_audio, so a missing file gives the
\* not-found message only, and the exit code is 1.
C10_OneDiagnostic ==
    /\ ErrorCount <= 1
    /\ (Done /\ exitCode = 1) => ErrorCount = 1
    /\ Printed("Error: Audio file not found") <=>
          \E i \in CallsTo("Path.exists") : calls[i].out = "False"
    /\ Printed("Error loading model") <=> LoadRaised
    /\ Printed("Error during transcription") <=> InferenceRaised
    /\ Printed("Traceback") <=>
          \/ detected.raised # "none"
          \/ (Done /\ detected.raised = "none" /\ ~env.whisperImport)
    /\ Printed("Error: Audio file not found") =>
          (~Printed("Error during transcription") /\ exitCode = 1)

C10_Witness ==
    /\ Printed("Error: Audio file not found")
    /\ ErrorCount = 1
    /\ Done

====
